---- MODULE Spec2Model ----
(***************************************************************************)
(* Model of src/app.py: the Groq chat front end.                           *)
(*   - run_code          (Snippet Runner, lines 234-276)                   *)
(*   - call_llm_api      (Completion Client, lines 143-216)                *)
(*   - the chat input, Test API Connection and Clear Chat handlers         *)
(***************************************************************************)
EXTENDS Integers, Sequences, FiniteSets, TLC

VARIABLES
    messages,       \* st.session_state.messages
    api_key,        \* st.session_state.api_key
    pc,             \* position of the running handler: idle / calling (in call_llm_api)
    caller,         \* handler that invoked call_llm_api: none / chat / test
    request,        \* the `messages` argument of the call_llm_api in progress
    attempt,        \* loop variable of `for attempt in range(max_retries)`
    posts,          \* one record per requests.post issued by the current call
    ui,             \* st.error / st.warning / st.success signals of the current pass
    response,       \* value returned by call_llm_api
    fs,             \* temporary files present on disk
    tmp_file_path,  \* {file created by the latest run_code}, empty when none
    run_args,       \* arguments of the latest run_code
    run_result,     \* pair returned by the latest run_code
    nruns,          \* number of run_code invocations so far
    text,           \* content of the assistant message handed to display_message
    code_blocks,    \* extract_code_blocks(text) as display_message holds it
    shown           \* what display_message has rendered of text

vars == <<messages, api_key, pc, caller, request, attempt, posts, ui, response,
          fs, tmp_file_path, run_args, run_result, nruns,
          text, code_blocks, shown>>

sessionVars == <<messages, api_key, pc, caller, request, attempt, posts, ui, response>>
runnerVars == <<fs, tmp_file_path, run_args, run_result, nruns>>
displayVars == <<text, code_blocks, shown>>

----------------------------------------------------------------------------
(* Bounds *)

MaxRuns == 3
MaxHist == 13
MaxLines == 4
MaxShown == 4

----------------------------------------------------------------------------
(* Snippet Runner *)

\* keys of SUPPORTED_LANGUAGES; the model keeps python, javascript and three
\* of the seventeen registered tags that have no execution branch
SUPPORTED_LANGUAGES == {"python", "javascript", "java", "bash", "matlab"}

\* tags handed to run_code: registered ones and two that are not registered
LanguageTags == SUPPORTED_LANGUAGES \cup {"cobol", "text"}

Codes == {"print('hi')", "while True: pass"}

\* what the environment does to one run_code invocation
\*   create_error : NamedTemporaryFile raises, no file was created
\*   write_error  : tmp_file.write raises, the file exists (delete=False)
\*   exit_zero / exit_nonzero : subprocess.run completed
\*   timeout      : subprocess.run raises TimeoutExpired
\*   exec_error   : subprocess.run raises another exception (e.g. node missing)
RunOutcomes == {"create_error", "write_error", "exit_zero", "exit_nonzero",
                "timeout", "exec_error"}

NoPath == {}

NoResult == [success |-> FALSE, output |-> "none"]

NoArgs == [code |-> "", language |-> "", outcome |-> ""]

\* run_code without the TimeoutExpired handler and with the exit-code test
\* turned round
run_code_path_uncaught(language, outcome) ==
    IF language \notin SUPPORTED_LANGUAGES
    THEN [created |-> FALSE, unlinked |-> FALSE,
          success |-> FALSE, output |-> "not supported"]
    ELSE IF outcome = "create_error"
    THEN [created |-> FALSE, unlinked |-> FALSE,
          success |-> FALSE, output |-> "Execution error"]
    ELSE IF outcome = "write_error"
    THEN [created |-> TRUE, unlinked |-> FALSE,
          success |-> FALSE, output |-> "Execution error"]
    ELSE IF language \notin {"python", "javascript"}
    THEN [created |-> TRUE, unlinked |-> FALSE,
          success |-> FALSE, output |-> "not implemented"]
    ELSE IF outcome = "timeout"
    THEN [created |-> TRUE, unlinked |-> FALSE,
          success |-> FALSE, output |-> "TimeoutExpired raised"]
    ELSE IF outcome = "exec_error"
    THEN [created |-> TRUE, unlinked |-> FALSE,
          success |-> FALSE, output |-> "Execution error"]
    ELSE IF outcome = "exit_zero"
    THEN [created |-> TRUE, unlinked |-> TRUE,
          success |-> FALSE, output |-> "stderr"]
    ELSE [created |-> TRUE, unlinked |-> TRUE,
          success |-> TRUE, output |-> "stdout"]

\* the path run_code takes through lines 236-276:
\* [created: a temporary file was created, unlinked: os.unlink was reached,
\*  success/output: the returned pair]
run_code_path(language, outcome) ==
    IF language \notin SUPPORTED_LANGUAGES
    THEN [created |-> FALSE, unlinked |-> FALSE,
          success |-> FALSE, output |-> "not supported"]
    ELSE IF outcome = "create_error"
    THEN [created |-> FALSE, unlinked |-> FALSE,
          success |-> FALSE, output |-> "Execution error"]
    ELSE IF outcome = "write_error"
    THEN [created |-> TRUE, unlinked |-> FALSE,
          success |-> FALSE, output |-> "Execution error"]
    ELSE IF language \notin {"python", "javascript"}
    THEN [created |-> TRUE, unlinked |-> FALSE,
          success |-> FALSE, output |-> "not implemented"]
    ELSE IF outcome = "timeout"
    THEN [created |-> TRUE, unlinked |-> FALSE,
          success |-> FALSE, output |-> "timed out"]
    ELSE IF outcome = "exec_error"
    THEN [created |-> TRUE, unlinked |-> FALSE,
          success |-> FALSE, output |-> "Execution error"]
    ELSE IF outcome = "exit_zero"
    THEN [created |-> TRUE, unlinked |-> TRUE,
          success |-> TRUE, output |-> "stdout"]
    ELSE [created |-> TRUE, unlinked |-> TRUE,
          success |-> FALSE, output |-> "stderr"]

\* one invocation run_code(code, language); the temporary file gets a fresh name
run_code(code, language, outcome) ==
    LET p == run_code_path(language, outcome)
        path == nruns + 1
    IN  /\ nruns < MaxRuns
        /\ nruns' = nruns + 1
        /\ run_args' = [code |-> code, language |-> language, outcome |-> outcome]
        /\ tmp_file_path' = IF p.created THEN {path} ELSE NoPath
        /\ fs' = IF p.created /\ ~p.unlinked THEN fs \cup {path} ELSE fs
        /\ run_result' = [success |-> p.success, output |-> p.output]

\* run_code called on its own
RunCode ==
    \E code \in Codes, language \in LanguageTags, outcome \in RunOutcomes :
        /\ run_code(code, language, outcome)
        /\ UNCHANGED <<sessionVars, displayVars>>

----------------------------------------------------------------------------
(* Code Block Extractor and message rendering; texts are sequences of characters *)

\* the backquote character (written as a name: the string syntax has no backquote)
BQ == "BACKQUOTE"

Fence == <<BQ, BQ, BQ>>

\* the characters \w matches among those the model uses
WordChars == {"a", "c", "e", "h", "i", "j", "n", "o", "p", "r", "s", "t", "v", "x", "y"}

\* the characters str.strip() removes
Whitespace == {" ", "\n"}

\* the literal 'text' of line 225
TextLanguage == <<"t", "e", "x", "t">>

Python == <<"p", "y", "t", "h", "o", "n">>

JavaScript == <<"j", "a", "v", "a", "s", "c", "r", "i", "p", "t">>

\* s[i:].startswith('```')
FenceAt(s, i) ==
    /\ i >= 1
    /\ i + 2 <= Len(s)
    /\ s[i] = BQ /\ s[i + 1] = BQ /\ s[i + 2] = BQ

\* first position after the longest run of \w characters from j: where the
\* greedy (\w+)? ends; giving characters back cannot help, \n is not a \w
RECURSIVE WordEnd(_, _)
WordEnd(s, j) ==
    IF j <= Len(s) /\ s[j] \in WordChars THEN WordEnd(s, j + 1) ELSE j

\* first position >= k where ``` starts, 0 when there is none: where the
\* lazy (.*?) with DOTALL stops
RECURSIVE NextFence(_, _)
NextFence(s, k) ==
    IF k > Len(s) THEN 0
    ELSE IF FenceAt(s, k) THEN k
    ELSE NextFence(s, k + 1)

NoMatch == [found |-> FALSE, language |-> <<>>, from |-> 0, close |-> 0]

\* the pattern ```(\w+)?\n(.*?)``` tried at position i (line 220)
\* from = first character of the body, close = first character of the closing ```
MatchAt(s, i) ==
    IF ~FenceAt(s, i) THEN NoMatch
    ELSE LET j == WordEnd(s, i + 3)
         IN  IF j > Len(s) \/ s[j] # "\n" THEN NoMatch
             ELSE LET k == NextFence(s, j + 1)
                  IN  IF k = 0 THEN NoMatch
                      ELSE [found |-> TRUE, language |-> SubSeq(s, i + 3, j - 1),
                            from |-> j + 1, close |-> k]

\* re.findall: the non-overlapping matches from left to right (line 221)
RECURSIVE FindAll(_, _)
FindAll(s, i) ==
    IF i > Len(s) THEN <<>>
    ELSE LET m == MatchAt(s, i)
         IN  IF m.found THEN <<m>> \o FindAll(s, m.close + 3)
             ELSE FindAll(s, i + 1)

RECURSIVE LStrip(_)
LStrip(s) ==
    IF s # <<>> /\ s[1] \in Whitespace THEN LStrip(Tail(s)) ELSE s

RECURSIVE RStrip(_)
RStrip(s) ==
    IF s # <<>> /\ s[Len(s)] \in Whitespace THEN RStrip(SubSeq(s, 1, Len(s) - 1)) ELSE s

\* str.strip()
Strip(s) == RStrip(LStrip(s))

\* extract_code_blocks (lines 218-232)
extract_code_blocks(s) ==
    LET matches == FindAll(s, 1)
    IN  [n \in 1..Len(matches) |->
            [language |-> IF matches[n].language # <<>> THEN matches[n].language
                          ELSE TextLanguage,
             code |-> Strip(SubSeq(s, matches[n].from, matches[n].close - 1))]]

\* str.split('\n')
RECURSIVE Split(_)
Split(s) ==
    LET nl == {i \in DOMAIN s : s[i] = "\n"}
    IN  IF nl = {} THEN <<s>>
        ELSE LET i == CHOOSE x \in nl : \A y \in nl : x <= y
             IN  <<SubSeq(s, 1, i - 1)>> \o Split(SubSeq(s, i + 1, Len(s)))

\* line.strip().startswith('```') (line 307)
IsFenceLine(line) == FenceAt(Strip(line), 1)

\* state of the loop over the lines (lines 303-304):
\* units = the st.markdown calls so far, each a list of line numbers,
\* inside = the lines skipped because in_code_block was set,
\* toggles = how often in_code_block was flipped
LinePassStart ==
    [units |-> <<>>, current_text |-> <<>>, in_code_block |-> FALSE,
     inside |-> {}, toggles |-> 0]

\* one iteration of the loop for line number l (lines 306-313)
line_step(st, lines, l) ==
    IF IsFenceLine(lines[l])
    THEN [st EXCEPT
            !.units = IF st.current_text # <<>> /\ ~st.in_code_block
                      THEN Append(st.units, st.current_text) ELSE st.units,
            !.current_text = IF st.current_text # <<>> /\ ~st.in_code_block
                             THEN <<>> ELSE st.current_text,
            !.in_code_block = ~st.in_code_block,
            !.toggles = st.toggles + 1]
    ELSE IF ~st.in_code_block
    THEN [st EXCEPT !.current_text = Append(st.current_text, l)]
    ELSE [st EXCEPT !.inside = st.inside \cup {l}]

RECURSIVE line_loop(_, _, _)
line_loop(st, lines, l) ==
    IF l > Len(lines) THEN st ELSE line_loop(line_step(st, lines, l), lines, l + 1)

\* the line pass with its final flush (lines 302-316)
line_pass(s) ==
    LET st == line_loop(LinePassStart, Split(s), 1)
    IN  [st EXCEPT !.units = IF st.current_text # <<>>
                             THEN Append(st.units, st.current_text) ELSE st.units,
                   !.current_text = <<>>]

NotShown == [branch |-> "none", pass |-> LinePassStart]

\* the assistant branch of display_message (lines 297-339): the line pass runs
\* only when extract_code_blocks found a block, otherwise the content goes to
\* st.markdown whole
display_message(s) ==
    IF extract_code_blocks(s) # <<>>
    THEN [branch |-> "blocks", pass |-> line_pass(s)]
    ELSE [branch |-> "markdown", pass |-> LinePassStart]

\* the lines the model builds message texts from
LineShapes ==
    { Fence,                      \* a bare fence
      Fence \o <<"a">>,           \* an opening fence with a \w tag
      Fence \o <<"a", "+">>,      \* an opening fence with a tag such as c++
      <<" ">> \o Fence,           \* an indented fence
      <<"a">>,                    \* a line of prose or code
      <<"a">> \o Fence,           \* a line that ends in ```
      <<>> }                      \* an empty line

RECURSIVE Join(_)
Join(ls) ==
    IF ls = <<>> THEN <<>>
    ELSE IF Len(ls) = 1 THEN ls[1]
    ELSE ls[1] \o <<"\n">> \o Join(Tail(ls))

Texts == {Join(ls) : ls \in UNION {[1..n -> LineShapes] : n \in 0..MaxLines}}

\* display_message applied to the text
DisplayMessage ==
    /\ shown.branch = "none"
    /\ code_blocks' = extract_code_blocks(text)
    /\ shown' = display_message(text)
    /\ UNCHANGED <<text, sessionVars, runnerVars>>

----------------------------------------------------------------------------
(* Completion Client *)

\* a loop that allows one attempt too many
max_retries_plus_one == 3 + 1

max_retries == 3

\* the slice bound of st.session_state.messages[-10:]
HistoryWindow == 10

OtherStatuses == {400, 500}

\* texts the model may return in choices[0].message.content
Contents == {"", "reply"}

None == [is_none |-> TRUE, text |-> ""]

Str(t) == [is_none |-> FALSE, text |-> t]

\* Python truthiness of an Optional[str]
Truthy(v) == ~v.is_none /\ v.text # ""

Outcome(net, status, body, content) ==
    [net |-> net, status |-> status, body |-> body, content |-> content]

\* what one requests.post can produce
\*   net = timeout            requests.exceptions.Timeout
\*   net = connection_error   another requests.exceptions.RequestException
\*   net = response           an HTTP response with a status and a body:
\*     200: choices              choices[0].message.content is a string
\*          null_content         choices[0].message.content is null
\*          no_message           choices is non-empty, choices[0] has no message
\*          empty_choices        "choices": []
\*          no_choices           a JSON object without "choices"
\*          not_json_reqexc      response.json() raises requests' JSONDecodeError,
\*                               a RequestException (requests >= 2.27)
\*          not_json_valueerr    response.json() raises a plain ValueError
\*                               (requests < 2.27)
\*     other status: error_message / no_error / not_json
Outcomes ==
    {Outcome("response", 200, "choices", c) : c \in Contents}
    \cup {Outcome("response", 200, b, "") :
            b \in {"null_content", "no_message", "empty_choices", "no_choices",
                   "not_json_reqexc", "not_json_valueerr"}}
    \cup {Outcome("response", 401, "none", ""), Outcome("response", 429, "none", "")}
    \cup {Outcome("response", s, b, "") :
            s \in OtherStatuses, b \in {"error_message", "no_error", "not_json"}}
    \cup {Outcome("timeout", 0, "none", ""), Outcome("connection_error", 0, "none", "")}

\* a st.error / st.warning / st.success call
Signal(level, msg, n, detail) ==
    [level |-> level, msg |-> msg, n |-> n, detail |-> detail]

\* result of one loop iteration:
\* returns = the function returns here with `value`; otherwise `continue`
Step(returns, value, signals, sleep) ==
    [returns |-> returns, value |-> value, signals |-> signals, sleep |-> sleep]

\* the last-attempt test of the timeout handler off by one
on_timeout_early(a) ==
    IF a < max_retries - 2
    THEN Step(FALSE, None, <<Signal("warning", "Request timed out. Retrying", a + 2, "")>>, 0)
    ELSE Step(TRUE, None, <<Signal("error", "Request timed out after multiple attempts", 0, "")>>, 0)

\* except requests.exceptions.Timeout (lines 196-202)
on_timeout(a) ==
    IF a < max_retries - 1
    THEN Step(FALSE, None, <<Signal("warning", "Request timed out. Retrying", a + 2, "")>>, 0)
    ELSE Step(TRUE, None, <<Signal("error", "Request timed out after multiple attempts", 0, "")>>, 0)

\* except requests.exceptions.RequestException (lines 203-210)
on_request_exception(a) ==
    IF a < max_retries - 1
    THEN Step(FALSE, None, <<Signal("warning", "Connection error. Retrying", a + 2, "")>>, 1)
    ELSE Step(TRUE, None, <<Signal("error", "Connection failed: e", 0, "")>>, 0)

\* except Exception of the outer try (lines 214-216)
on_exception ==
    Step(TRUE, None, <<Signal("error", "Unexpected error", 0, "")>>, 0)

\* status 200 (lines 170-176)
on_200(o, a) ==
    IF o.body = "not_json_reqexc" THEN on_request_exception(a)
    ELSE IF o.body = "not_json_valueerr" THEN on_exception
    ELSE IF o.body \in {"empty_choices", "no_choices"}
    THEN Step(TRUE, None, <<Signal("error", "Unexpected API response format", 0, "")>>, 0)
    ELSE IF o.body = "no_message" THEN on_exception
    ELSE IF o.body = "null_content" THEN Step(TRUE, None, <<>>, 0)
    ELSE Step(TRUE, Str(o.content), <<>>, 0)

\* a 401 that is retried like a rate limit
on_401_retry ==
    Step(FALSE, None, <<Signal("warning", "Invalid API key. Retrying", 0, "")>>, 1)

\* status 401 (lines 177-179)
on_401 ==
    Step(TRUE, None, <<Signal("error", "Invalid API key", 0, "")>>, 0)

\* a 429 that gives up on the second attempt
on_429_gives_up(a) ==
    IF a < 1
    THEN Step(FALSE, None,
              <<Signal("warning", "Rate limit exceeded. Retrying", 2^a, "")>>, 2^a)
    ELSE Step(TRUE, None, <<Signal("error", "Rate limit exceeded", 0, "")>>, 0)

\* status 429 (lines 180-183)
on_429(a) ==
    Step(FALSE, None,
         <<Signal("warning", "Rate limit exceeded. Retrying", 2^a, "")>>, 2^a)

\* another status that is retried after a pause
on_other_status_retry(o) ==
    Step(FALSE, None, <<Signal("warning", "API Error. Retrying", o.status, "")>>, 1)

\* any other status (lines 184-194)
on_other_status(o) ==
    LET error_detail == IF o.body = "error_message" THEN "error.message"
                        ELSE IF o.body = "no_error" THEN ""
                        ELSE "response.text"
    IN  Step(TRUE, None, <<Signal("error", "API Error", o.status, error_detail)>>, 0)

\* the body of the retry loop for one attempt (lines 162-210)
attempt_step(o, a) ==
    IF o.net = "timeout" THEN on_timeout(a)
    ELSE IF o.net = "connection_error" THEN on_request_exception(a)
    ELSE IF o.status = 200 THEN on_200(o, a)
    ELSE IF o.status = 401 THEN on_401
    ELSE IF o.status = 429 THEN on_429(a)
    ELSE on_other_status(o)

----------------------------------------------------------------------------
(* Session and handlers *)

Prompts == {"p1"}

Keys == {"", "gsk_key"}

Message(role, content) == [role |-> role, content |-> content, timestamp |-> "HH:MM:SS"]

ApiMessage(role, content) == [role |-> role, content |-> content]

get_system_prompt == "You are CodeMaster AI"

ProbePrompt == "Hello, just testing the connection"

\* msgs[:n], the oldest entries instead of the latest
FirstN(msgs, n) ==
    IF Len(msgs) <= n THEN msgs ELSE SubSeq(msgs, 1, n)

\* msgs[-n:]
LastN(msgs, n) ==
    IF Len(msgs) <= n THEN msgs ELSE SubSeq(msgs, Len(msgs) - n + 1, Len(msgs))

\* api_messages without the system prompt
build_api_messages_no_system(msgs) ==
    [i \in 1..Len(LastN(msgs, HistoryWindow)) |->
        ApiMessage(LastN(msgs, HistoryWindow)[i].role,
                   LastN(msgs, HistoryWindow)[i].content)]

\* api_messages of the chat handler (lines 486-490)
build_api_messages(msgs) ==
    <<ApiMessage("system", get_system_prompt)>>
    \o [i \in 1..Len(LastN(msgs, HistoryWindow)) |->
            ApiMessage(LastN(msgs, HistoryWindow)[i].role,
                       LastN(msgs, HistoryWindow)[i].content)]

\* the messages argument of the connection test (line 428)
test_api_messages == <<ApiMessage("user", ProbePrompt)>>

Init ==
    /\ messages = <<>>
    /\ api_key = ""
    /\ pc = "idle"
    /\ caller = "none"
    /\ request = <<>>
    /\ attempt = 0
    /\ posts = <<>>
    /\ ui = <<>>
    /\ response = None
    /\ fs = {}
    /\ tmp_file_path = NoPath
    /\ run_args = NoArgs
    /\ run_result = NoResult
    /\ nruns = 0
    /\ text = <<>>
    /\ code_blocks = <<>>
    /\ shown = NotShown

\* an assistant message of any text is about to be displayed
InitExtract ==
    /\ messages = <<>>
    /\ api_key = ""
    /\ pc = "idle"
    /\ caller = "none"
    /\ request = <<>>
    /\ attempt = 0
    /\ posts = <<>>
    /\ ui = <<>>
    /\ response = None
    /\ fs = {}
    /\ tmp_file_path = NoPath
    /\ run_args = NoArgs
    /\ run_result = NoResult
    /\ nruns = 0
    /\ text \in Texts
    /\ code_blocks = <<>>
    /\ shown = NotShown

\* entry of call_llm_api: the locals of the previous call are gone
enter_call(who, msgs) ==
    /\ pc' = "calling"
    /\ caller' = who
    /\ request' = msgs
    /\ attempt' = 0
    /\ posts' = <<>>
    /\ response' = None

no_call ==
    /\ pc' = "idle"
    /\ caller' = "none"
    /\ request' = <<>>
    /\ attempt' = 0
    /\ posts' = <<>>
    /\ response' = None

\* a new pass that runs no snippet: the locals of the last run_code are gone,
\* the files it left are not
forget_run ==
    /\ tmp_file_path' = NoPath
    /\ run_args' = NoArgs
    /\ run_result' = NoResult
    /\ UNCHANGED <<fs, nruns>>

\* sidebar text input (lines 347-353, 392)
SetApiKey ==
    \E k \in Keys :
        /\ pc = "idle"
        /\ k # api_key
        /\ api_key' = k
        /\ ui' = <<>>
        /\ no_call
        /\ forget_run
        /\ UNCHANGED <<messages, displayVars>>

\* Clear Chat button (lines 411-413)
ClearChat ==
    /\ pc = "idle"
    /\ messages' = <<>>
    /\ ui' = <<>>
    /\ no_call
    /\ forget_run
    /\ UNCHANGED <<api_key, displayVars>>

\* Test API Connection button without a key (lines 422-424)
TestNoKey ==
    /\ pc = "idle"
    /\ api_key = ""
    /\ ui' = <<Signal("error", "Please enter your API key first", 0, "")>>
    /\ no_call
    /\ forget_run
    /\ UNCHANGED <<messages, api_key, displayVars>>

\* Test API Connection button with a key (lines 425-430)
TestStart ==
    /\ pc = "idle"
    /\ api_key # ""
    /\ ui' = <<>>
    /\ enter_call("test", test_api_messages)
    /\ forget_run
    /\ UNCHANGED <<messages, api_key, displayVars>>

\* chat input without a key (lines 467-470)
SubmitNoKey ==
    \E prompt \in Prompts :
        /\ pc = "idle"
        /\ api_key = ""
        /\ ui' = <<Signal("error", "Please enter your Groq API key", 0, "")>>
        /\ no_call
        /\ forget_run
        /\ UNCHANGED <<messages, api_key, displayVars>>

\* a chat input that does not look at the key
SubmitStart_unchecked ==
    \E prompt \in Prompts :
        /\ pc = "idle"
        /\ Len(messages) + 2 <= MaxHist
        /\ messages' = Append(messages, Message("user", prompt))
        /\ ui' = <<>>
        /\ enter_call("chat", build_api_messages(messages'))
        /\ forget_run
        /\ UNCHANGED <<api_key, displayVars>>

\* chat input with a key, up to the call (lines 467-499)
SubmitStart ==
    \E prompt \in Prompts :
        /\ pc = "idle"
        /\ api_key # ""
        /\ Len(messages) + 2 <= MaxHist
        /\ messages' = Append(messages, Message("user", prompt))
        /\ ui' = <<>>
        /\ enter_call("chat", build_api_messages(messages'))
        /\ forget_run
        /\ UNCHANGED <<api_key, displayVars>>

\* a chat handler that stays silent when no text came back
on_return_silent(who, value, msgs) ==
    IF who = "chat"
    THEN IF Truthy(value)
         THEN [messages |-> Append(msgs, Message("assistant", value.text)),
               signals |-> <<>>]
         ELSE [messages |-> msgs, signals |-> <<>>]
    ELSE IF Truthy(value)
         THEN [messages |-> msgs,
               signals |-> <<Signal("success", "Connection successful", 0, "")>>]
         ELSE [messages |-> msgs,
               signals |-> <<Signal("error", "Connection failed", 0, "")>>]

\* a connection test that stores the reply in the history
on_return_test_stored(who, value, msgs) ==
    IF Truthy(value)
    THEN [messages |-> Append(msgs, Message("assistant", value.text)),
          signals |-> IF who = "chat" THEN <<>>
                      ELSE <<Signal("success", "Connection successful", 0, "")>>]
    ELSE [messages |-> msgs,
          signals |-> IF who = "chat"
                      THEN <<Signal("error", "Failed to generate response", 0, "")>>
                      ELSE <<Signal("error", "Connection failed", 0, "")>>]

\* a chat handler that takes the prompt back when no text came back
on_return_rollback(who, value, msgs) ==
    IF who = "chat"
    THEN IF Truthy(value)
         THEN [messages |-> Append(msgs, Message("assistant", value.text)),
               signals |-> <<>>]
         ELSE [messages |-> SubSeq(msgs, 1, Len(msgs) - 1),
               signals |-> <<Signal("error", "Failed to generate response", 0, "")>>]
    ELSE IF Truthy(value)
         THEN [messages |-> msgs,
               signals |-> <<Signal("success", "Connection successful", 0, "")>>]
         ELSE [messages |-> msgs,
               signals |-> <<Signal("error", "Connection failed", 0, "")>>]

\* what the caller does with the returned value
\* (chat: lines 501-513, test: lines 431-434)
on_return(who, value, msgs) ==
    IF who = "chat"
    THEN IF Truthy(value)
         THEN [messages |-> Append(msgs, Message("assistant", value.text)),
               signals |-> <<>>]
         ELSE [messages |-> msgs,
               signals |-> <<Signal("error", "Failed to generate response", 0, "")>>]
    ELSE IF Truthy(value)
         THEN [messages |-> msgs,
               signals |-> <<Signal("success", "Connection successful", 0, "")>>]
         ELSE [messages |-> msgs,
               signals |-> <<Signal("error", "Connection failed", 0, "")>>]

\* one iteration of the retry loop; when the call returns (from the iteration
\* or by leaving the loop, line 212) the caller's continuation runs
Attempt ==
    \E o \in Outcomes :
        LET r == attempt_step(o, attempt)
            exhausted == ~r.returns /\ attempt + 1 >= max_retries
            ret == on_return(caller, r.value, messages)
        IN  /\ pc = "calling"
            /\ attempt < max_retries
            /\ posts' = Append(posts, [outcome |-> o, attempt |-> attempt,
                                       sleep |-> r.sleep])
            /\ IF r.returns \/ exhausted
               THEN /\ pc' = "idle"
                    /\ response' = r.value
                    /\ attempt' = attempt
                    /\ messages' = ret.messages
                    /\ ui' = ui \o r.signals \o ret.signals
               ELSE /\ pc' = "calling"
                    /\ response' = response
                    /\ attempt' = attempt + 1
                    /\ messages' = messages
                    /\ ui' = ui \o r.signals
            /\ UNCHANGED <<api_key, caller, request, runnerVars, displayVars>>

----------------------------------------------------------------------------
(* Rendering of the history and the Run buttons *)

\* a reply that carries code: a python block, an untagged block and a
\* javascript block
CodeReply == "code reply"

CodeReplyText ==
    Join(<<Fence \o Python, <<"a">>, Fence,
           Fence, <<"a">>, Fence,
           Fence \o JavaScript, <<"a">>, Fence>>)

CodeReplyBlocks == extract_code_blocks(CodeReplyText)

\* "reply" and the other contents of the model are plain text
PlainBlocks == extract_code_blocks(<<"r", "e", "p", "l", "y">>)

\* code_blocks of display_message for a stored message (line 298)
blocks_of(content) ==
    IF content = CodeReply THEN CodeReplyBlocks ELSE PlainBlocks

\* the tag as run_code and SUPPORTED_LANGUAGES know it
tag_of(language) ==
    IF language = Python THEN "python"
    ELSE IF language = JavaScript THEN "javascript"
    ELSE "text"

\* the st.button calls of one pass of the rendering loop (lines 463-464 with
\* 319-328): for assistant message m and its block number i (from 0) of a
\* language in ['python', 'javascript'], key run_{i}_{len(messages)}
run_buttons(msgs) ==
    UNION {
        {[msg |-> m, block |-> i, key |-> <<i, Len(msgs)>>] :
            i \in {j \in 0..(Len(blocks_of(msgs[m].content)) - 1) :
                     blocks_of(msgs[m].content)[j + 1].language \in {Python, JavaScript}}} :
        m \in {k \in DOMAIN msgs : msgs[k].role = "assistant"}}

\* button a is created before button b in the pass
Before(a, b) ==
    a.msg < b.msg \/ (a.msg = b.msg /\ a.block < b.block)

\* the pass gets as far as creating button b: no button up to b repeats the
\* key of an earlier one (Streamlit raises on a repeated key and ends the pass)
created(msgs, b) ==
    \A x, y \in run_buttons(msgs) :
        (Before(x, y) /\ (y = b \/ Before(y, b))) => x.key # y.key

\* the rendering loop completes
render_completes(msgs) ==
    \A x, y \in run_buttons(msgs) : x # y => x.key # y.key

\* what a clicked Run button does (lines 329-337)
run_one(b, outcome) ==
    LET block == blocks_of(messages[b.msg].content)[b.block + 1]
        p == run_code_path(tag_of(block.language), outcome)
    IN  /\ run_code(block.code, tag_of(block.language), outcome)
        /\ ui' = IF p.success
                 THEN <<Signal("success", "Code executed successfully!", 0, "")>>
                 ELSE <<Signal("error", "Execution failed!", 0, "")>>

\* Run button of a code block (lines 325-337)
RunButton ==
    \E b \in run_buttons(messages), outcome \in RunOutcomes :
        /\ pc = "idle"
        /\ created(messages, b)
        /\ run_one(b, outcome)
        /\ no_call
        /\ UNCHANGED <<messages, api_key, displayVars>>

\* the chat input is reached only when the rendering loop above it completes
SubmitNoKeyShown ==
    /\ render_completes(messages)
    /\ SubmitNoKey

SubmitStartShown ==
    /\ render_completes(messages)
    /\ Len(messages) + 2 <= MaxShown
    /\ SubmitStart

\* histories a session can have reached, code replies included: assistant
\* messages follow user messages, and once two code replies are stored the
\* chat input is out of reach
ShownMessages ==
    {Message("user", p) : p \in Prompts}
    \cup {Message("assistant", c) : c \in {"reply", CodeReply}}

ShownHistories ==
    {h \in UNION {[1..n -> ShownMessages] : n \in 0..MaxShown} :
        /\ \A i \in DOMAIN h :
              h[i].role = "assistant" => (i > 1 /\ h[i - 1].role = "user")
        /\ LET code == {i \in DOMAIN h : h[i].content = CodeReply}
           IN  \/ Cardinality(code) <= 1
               \/ (Cardinality(code) = 2 /\ Len(h) \in code)}

InitDisplay ==
    /\ messages \in ShownHistories
    /\ api_key \in Keys
    /\ pc = "idle"
    /\ caller = "none"
    /\ request = <<>>
    /\ attempt = 0
    /\ posts = <<>>
    /\ ui = <<>>
    /\ response = None
    /\ fs = {}
    /\ tmp_file_path = NoPath
    /\ run_args = NoArgs
    /\ run_result = NoResult
    /\ nruns = 0
    /\ text = <<>>
    /\ code_blocks = <<>>
    /\ shown = NotShown

----------------------------------------------------------------------------
(* Specifications *)

\* the session: key entry, chat, connection test, clear
Next ==
    \/ SetApiKey
    \/ ClearChat
    \/ TestNoKey
    \/ TestStart
    \/ SubmitNoKey
    \/ SubmitStart
    \/ Attempt

Spec == Init /\ [][Next]_vars

\* run_code applied to every tag, code and environment outcome
NextRunner == RunCode

SpecRunner == Init /\ [][NextRunner]_vars

\* the session with its rendering: stored code replies and their Run buttons
NextDisplay ==
    \/ SetApiKey
    \/ ClearChat
    \/ TestNoKey
    \/ TestStart
    \/ SubmitNoKeyShown
    \/ SubmitStartShown
    \/ Attempt
    \/ RunButton

SpecDisplay == InitDisplay /\ [][NextDisplay]_vars

\* extract_code_blocks and display_message applied to every text
NextExtract == DisplayMessage

SpecExtract == InitExtract /\ [][NextExtract]_vars

----------------------------------------------------------------------------
(* Observations used by the properties *)

\* a run_code invocation has returned
RunReturned == run_args # NoArgs

\* a call_llm_api invocation has returned (and its caller has continued)
CallReturned == pc = "idle" /\ caller # "none"

\* the st.error messages call_llm_api can emit
ClientErrorMsgs ==
    {"Unexpected API response format", "Invalid API key", "API Error",
     "Request timed out after multiple attempts", "Connection failed: e",
     "Unexpected error"}

\* the st.error messages the current call has emitted
ClientErrors ==
    {ui[i].msg : i \in {j \in DOMAIN ui : ui[j].level = "error"
                                         /\ ui[j].msg \in ClientErrorMsgs}}

IsStatus(i, s) ==
    posts[i].outcome.net = "response" /\ posts[i].outcome.status = s

IsNet(i, n) == posts[i].outcome.net = n

\* the call ended with post i, returning no text and the one error msg
EndedWith(i, msg) ==
    /\ i = Len(posts)
    /\ pc = "idle"
    /\ response = None
    /\ ClientErrors = {msg}

\* display_message has been applied to text
Displayed == shown.branch # "none"

\* numbers of the lines of s the line pass takes for fences
FenceLineNos(s) ==
    {l \in 1..Len(Split(s)) : IsFenceLine(Split(s)[l])}

\* position in s of the first character of line l
RECURSIVE LineStart(_, _)
LineStart(lines, l) ==
    IF l = 1 THEN 1 ELSE LineStart(lines, l - 1) + Len(lines[l - 1]) + 1

\* the fence lines of s in order
FenceLines(s) ==
    LET nos == FenceLineNos(s)
    IN  [n \in 1..Cardinality(nos) |->
            Split(s)[CHOOSE l \in nos : Cardinality({m \in nos : m <= l}) = n]]

\* well-formed fenced text: a backquote occurs only in a fence that opens its
\* line, an opening fence is ``` with an optional tag free of whitespace and
\* backquotes, a closing fence is ``` alone, and every opening fence has a
\* closing fence
WellFormed(s) ==
    /\ \A l \in 1..Len(Split(s)) :
          LET line == Split(s)[l]
          IN  (\E i \in DOMAIN line : line[i] = BQ)
                 => /\ FenceAt(line, 1)
                    /\ \A i \in 4..Len(line) : line[i] \notin Whitespace \cup {BQ}
    /\ Len(FenceLines(s)) % 2 = 0
    /\ \A n \in 1..Len(FenceLines(s)) : n % 2 = 0 => FenceLines(s)[n] = Fence

\* number of fence pairs of a well-formed text
FencePairs(s) == Len(FenceLines(s)) \div 2

\* lines of s that lie, with their line end, in the body of a regex match
MatchInside(s) ==
    LET lines == Split(s)
        matches == FindAll(s, 1)
    IN  {l \in 1..Len(lines) :
            \E n \in 1..Len(matches) :
                /\ matches[n].from <= LineStart(lines, l)
                /\ LineStart(lines, l) + Len(lines[l]) < matches[n].close}

\* an st.error is among the signals
HasError(signals) == \E i \in DOMAIN signals : signals[i].level = "error"

\* time slept after 429 responses in posts[1..i]
RECURSIVE Backoff(_)
Backoff(i) ==
    IF i = 0 THEN 0
    ELSE Backoff(i - 1) + (IF IsStatus(i, 429) THEN posts[i].sleep ELSE 0)

----------------------------------------------------------------------------
(* Properties of the Snippet Runner, checked under SpecRunner *)

\* C1: when run_code has returned, the temporary file it created (if any) no
\* longer exists, whatever the outcome of the write and of the execution.
C1_TempFileRemoved ==
    RunReturned => tmp_file_path \cap fs = {}

\* C2: for every tag other than python and javascript, registered or not,
\* run_code returns a failure saying the language cannot be executed (either
\* wording of the code counts), creates no temporary file and leaves none
\* behind.
C2_UnsupportedNoTempFile ==
    (RunReturned /\ run_args.language \notin {"python", "javascript"})
        => /\ ~run_result.success
           /\ run_args.outcome \notin {"create_error", "write_error"}
                => run_result.output \in {"not supported", "not implemented"}
           /\ tmp_file_path = NoPath
           /\ tmp_file_path \cap fs = {}

\* C11: run_code always returns a (success, payload) pair, for every tag and
\* every outcome of file creation and execution: exit code 0 gives
\* (True, stdout), a non-zero exit code (False, stderr), an exceeded deadline
\* (False, timed-out message), any other exception (False, its description),
\* and a tag that is not executed a failure as well.
C11_AlwaysReturnsPair ==
    RunReturned
        => /\ run_result.success \in BOOLEAN
           /\ run_result.output \in {"stdout", "stderr", "timed out", "Execution error",
                                     "not supported", "not implemented"}
           /\ run_result.success <=> run_result.output = "stdout"
           /\ run_args.language \in {"python", "javascript"}
                => /\ run_args.outcome = "exit_zero"
                        => run_result = [success |-> TRUE, output |-> "stdout"]
                   /\ run_args.outcome = "exit_nonzero"
                        => run_result = [success |-> FALSE, output |-> "stderr"]
                   /\ run_args.outcome = "timeout"
                        => run_result = [success |-> FALSE, output |-> "timed out"]
                   /\ run_args.outcome \in {"create_error", "write_error", "exec_error"}
                        => run_result = [success |-> FALSE, output |-> "Execution error"]
           /\ run_args.language \notin {"python", "javascript"}
                => ~run_result.success

C11_Witness ==
    /\ RunReturned
    /\ run_args.language = "javascript"
    /\ run_args.outcome = "timeout"
    /\ run_result = [success |-> FALSE, output |-> "timed out"]

----------------------------------------------------------------------------
(* Properties of the Code Block Extractor, checked under SpecExtract *)

\* C12: on well-formed text the line pass of display_message and
\* extract_code_blocks find the same blocks: the line pass closes as many
\* fence pairs as there are extracted blocks, and the lines it skips as code
\* are exactly the lines in the bodies of the extracted blocks.
C12_LinePassAgreesWithRegex ==
    (shown.branch = "blocks" /\ WellFormed(text))
        => /\ shown.pass.toggles = 2 * Len(code_blocks)
           /\ shown.pass.inside = MatchInside(text)

\* C13: on well-formed text extract_code_blocks returns one block per fence
\* pair, in source order (block n carries the tag of the n-th opening fence),
\* with a non-empty language that is "text" when the fence has no tag; a text
\* without a fence yields no block.
C13_OneBlockPerFencePair ==
    (Displayed /\ WellFormed(text))
        => /\ Len(code_blocks) = FencePairs(text)
           /\ \A n \in 1..Len(code_blocks) :
                /\ code_blocks[n].language # <<>>
                /\ 2 * n - 1 <= Len(FenceLines(text))
                     => code_blocks[n].language =
                            IF FenceLines(text)[2 * n - 1] = Fence THEN TextLanguage
                            ELSE SubSeq(FenceLines(text)[2 * n - 1], 4,
                                        Len(FenceLines(text)[2 * n - 1]))
           /\ FenceLines(text) = <<>> => code_blocks = <<>>

----------------------------------------------------------------------------
(* Properties of the Completion Client, checked under Spec *)

\* C3: a 401 response ends the call at once with the invalid-key failure: it
\* is the last POST of the call, so a 401 on the first attempt means exactly
\* one POST.
C3_Unauthorized_NoRetry ==
    \A i \in DOMAIN posts :
        IsStatus(i, 401) => EndedWith(i, "Invalid API key")

C3_Witness ==
    /\ CallReturned
    /\ Len(posts) = 1
    /\ IsStatus(1, 401)

\* C4: after 429 on attempts 1 and 2 the third attempt is made; a 200 with a
\* non-empty choices array there returns choices[0].message.content, and a
\* third 429 ends the call after exactly 3 POSTs with no text and no error
\* (NoResponse).
C4_RateLimit_ThenResult ==
    (Len(posts) >= 2 /\ IsStatus(1, 429) /\ IsStatus(2, 429))
        => /\ Len(posts) = 2 => (pc = "calling" /\ attempt = 2)
           /\ (Len(posts) = 3 /\ IsStatus(3, 200) /\ posts[3].outcome.body = "choices")
                => /\ pc = "idle"
                   /\ response = Str(posts[3].outcome.content)
           /\ (Len(posts) = 3 /\ IsStatus(3, 429))
                => /\ pc = "idle"
                   /\ response = None
                   /\ ClientErrors = {}

C4_Witness ==
    /\ CallReturned
    /\ Len(posts) = 3
    /\ IsStatus(1, 429) /\ IsStatus(2, 429)
    /\ IsStatus(3, 200) /\ posts[3].outcome.body = "choices"
    /\ response = Str("reply")

\* C5: one call issues at least 1 and at most 3 POSTs: never a 4th, none is
\* skipped, and it has returned once the third is classified.
C5_BoundedAttempts ==
    /\ Len(posts) <= 3
    /\ CallReturned => Len(posts) >= 1
    /\ pc = "calling" => (Len(posts) = attempt /\ attempt < 3)

C5_Witness ==
    /\ CallReturned
    /\ Len(posts) = 3
    /\ IsNet(1, "timeout") /\ IsStatus(2, 429) /\ IsNet(3, "connection_error")

\* C6: the request the chat handler builds from a history of n messages is the
\* system prompt followed by the last min(n, 10) entries in order, each cut
\* down to role and content; building it only appends the user message to the
\* stored history.
C6_RequestWindow ==
    /\ [](  (pc = "calling" /\ caller = "chat")
              => LET n == Len(messages)
                     k == IF n < 10 THEN n ELSE 10
                 IN  /\ Len(request) = k + 1
                     /\ request[1] = [role |-> "system", content |-> get_system_prompt]
                     /\ \A j \in 1..k :
                            request[j + 1] = [role |-> messages[n - k + j].role,
                                              content |-> messages[n - k + j].content])
    /\ [][ (pc = "idle" /\ pc' = "calling" /\ caller' = "chat")
              => /\ Len(messages') = Len(messages) + 1
                 /\ SubSeq(messages', 1, Len(messages)) = messages
                 /\ messages'[Len(messages')].role = "user" ]_vars

C6_Witness ==
    /\ pc = "calling" /\ caller = "chat"
    /\ Len(messages) = 11
    /\ Len(request) = 11
    /\ request[2].role = "assistant"

\* C7 as stated: every request that is sent, from the chat handler or from the
\* connection test, has a non-empty message list that starts with a system
\* message.
C7_Original_SystemFirst ==
    Len(posts) > 0 => (request # <<>> /\ request[1].role = "system")

\* C7 amended: every request that is sent has a non-empty message list; one
\* sent by the chat handler starts with a system message, one sent by the
\* connection test is the single user probe message.
C7_RequestHead ==
    Len(posts) > 0
        => /\ request # <<>>
           /\ caller = "chat" => request[1].role = "system"
           /\ caller = "test" => request = <<[role |-> "user", content |-> ProbePrompt]>>

C7_Witness ==
    /\ caller = "test"
    /\ Len(posts) > 0
    /\ Len(request) = 1

\* C8: a 200 response is terminal on whichever attempt it arrives: text when
\* choices is non-empty, the malformed-response failure when choices is
\* missing or empty or the body cannot be parsed; no POST follows it.
C8_Status200_Terminal ==
    \A i \in DOMAIN posts :
        IsStatus(i, 200)
            => /\ i = Len(posts)
               /\ pc = "idle"
               /\ posts[i].outcome.body = "choices"
                    => response = Str(posts[i].outcome.content)
               /\ posts[i].outcome.body \in {"empty_choices", "no_choices"}
                    => EndedWith(i, "Unexpected API response format")
               /\ posts[i].outcome.body \in {"not_json_reqexc", "not_json_valueerr"}
                    => /\ response = None
                       /\ ClientErrors \in {{"Unexpected API response format"},
                                            {"Unexpected error"}}

\* C9: a status other than 200, 401 and 429 ends the call at once with the
\* API error carrying that status: no sleep and no POST follows it.
C9_OtherStatus_Terminal ==
    \A i \in DOMAIN posts :
        (posts[i].outcome.net = "response" /\ posts[i].outcome.status \notin {200, 401, 429})
            => /\ EndedWith(i, "API Error")
               /\ posts[i].sleep = 0
               /\ \E j \in DOMAIN ui :
                    /\ ui[j].level = "error" /\ ui[j].msg = "API Error"
                    /\ ui[j].n = posts[i].outcome.status

C9_Witness ==
    /\ CallReturned
    /\ Len(posts) = 2
    /\ IsStatus(1, 429)
    /\ IsStatus(2, 500)

\* C10: a timeout or connection error on attempt 1 or 2 is followed by another
\* POST, after a 1-unit sleep for a connection error and none for a timeout;
\* on attempt 3 the call returns the timeout or connection failure without
\* sleeping, whatever the earlier attempts were.
C10_NetworkErrors ==
    \A i \in DOMAIN posts :
        /\ IsNet(i, "timeout")
            => IF i < 3
               THEN /\ posts[i].sleep = 0
                    /\ Len(posts) = i => (pc = "calling" /\ attempt = i)
               ELSE /\ posts[i].sleep = 0
                    /\ EndedWith(i, "Request timed out after multiple attempts")
        /\ IsNet(i, "connection_error")
            => IF i < 3
               THEN /\ posts[i].sleep = 1
                    /\ Len(posts) = i => (pc = "calling" /\ attempt = i)
               ELSE /\ posts[i].sleep = 0
                    /\ EndedWith(i, "Connection failed: e")

C10_Witness ==
    /\ CallReturned
    /\ Len(posts) = 3
    /\ IsNet(1, "connection_error") /\ IsNet(2, "timeout") /\ IsNet(3, "timeout")

\* C14: a 429 on 0-indexed attempt a sleeps exactly 2^a and the next POST
\* follows while the budget of 3 attempts lasts; every backoff sleep is
\* followed by another attempt, so one call sleeps at most 1 + 2 = 3 units of
\* backoff, and three 429s end in NoResponse.
C14_BackoffThenRetry ==
    /\ \A i \in DOMAIN posts :
          IsStatus(i, 429)
             => /\ i < 3 => /\ posts[i].sleep = 2^(i - 1)
                            /\ Len(posts) = i => (pc = "calling" /\ attempt = i)
                /\ posts[i].sleep > 0 => i < 3
                /\ i = 3 => (pc = "idle" /\ response = None /\ ClientErrors = {})
    /\ Backoff(Len(posts)) <= 3

----------------------------------------------------------------------------
(* Properties of the chat handler, checked under Spec *)

\* C15: a prompt submission that ends without an assistant message, because
\* the key is missing or because call_llm_api returned no text for whatever
\* reason, shows an st.error in that pass and leaves the handler idle, ready
\* for the next action.
C15_FailureIsVisible ==
    /\ []( (CallReturned /\ caller = "chat"
               /\ messages[Len(messages)].role # "assistant")
            => (HasError(ui) /\ pc = "idle") )
    /\ [][ SubmitNoKey => (HasError(ui') /\ pc' = "idle") ]_vars

C15_Witness ==
    /\ CallReturned /\ caller = "chat"
    /\ Len(posts) = 3
    /\ IsStatus(1, 429) /\ IsStatus(2, 429) /\ IsStatus(3, 429)
    /\ messages[Len(messages)].role = "user"
    /\ ClientErrors = {}
    /\ HasError(ui)

\* C17: whenever call_llm_api returns a text to the chat handler, the empty
\* string included, the handler appends one assistant message with that text
\* after the user message and shows no failure message.
C17_SuccessIsAppended ==
    (CallReturned /\ caller = "chat" /\ ~response.is_none)
        => /\ Len(messages) >= 2
           /\ messages[Len(messages)].role = "assistant"
           /\ messages[Len(messages)].content = response.text
           /\ messages[Len(messages) - 1].role = "user"
           /\ ~HasError(ui)

\* C19: the history never starts with an assistant message and never holds
\* two assistant messages in a row: each one directly follows a user message.
C19_AssistantFollowsUser ==
    \A i \in DOMAIN messages :
        messages[i].role = "assistant"
            => (i > 1 /\ messages[i - 1].role = "user")

C19_Witness ==
    /\ Len(messages) >= 4
    /\ messages[1].role = "user" /\ messages[2].role = "user"
    /\ messages[3].role = "assistant" /\ messages[4].role = "user"

\* C20: no POST is issued and no call is in progress while the key is empty;
\* a step taken with an empty key appends nothing to the history, builds no
\* request and issues no POST, and a prompt submitted then is answered with
\* an error.
C20_NoPostWithoutKey ==
    /\ []( (pc = "calling" \/ posts # <<>>) => api_key # "" )
    /\ [][ (api_key = "" /\ api_key' = "")
              => /\ messages' \in {messages, <<>>}
                 /\ request' = <<>>
                 /\ posts' = <<>>
                 /\ pc' = "idle" ]_vars
    /\ [][ (SubmitNoKey \/ TestNoKey) => (HasError(ui') /\ messages' = messages) ]_vars

C20_Witness ==
    /\ api_key = ""
    /\ Len(messages) >= 2
    /\ ui = <<Signal("error", "Please enter your Groq API key", 0, "")>>
    /\ posts = <<>>

----------------------------------------------------------------------------
(* Properties of the session with its rendering, checked under SpecDisplay *)

\* C16: the history is append-only between clears: every step (prompt
\* submission, completion, connection test, snippet run, key entry) leaves the
\* old history as a prefix of the new one unless it is the Clear Chat action,
\* and every stored message has role user or assistant.
C16_AppendOnly ==
    /\ [][ \/ ( /\ Len(messages') >= Len(messages)
                /\ SubSeq(messages', 1, Len(messages)) = messages )
           \/ ClearChat ]_vars
    /\ [](\A i \in DOMAIN messages : messages[i].role \in {"user", "assistant"})

C16_Witness ==
    /\ RunReturned
    /\ run_args.language = "javascript"
    /\ Len(messages) = 4
    /\ messages[4].role = "user"
    /\ fs # {}

\* C18: in one pass of the rendering loop the keys of the Run buttons are
\* pairwise distinct over all runnable blocks of all assistant messages.
C18_RunKeysDistinct ==
    \A x, y \in run_buttons(messages) : x # y => x.key # y.key

====
